---- MODULE Spec2Model ----
(***************************************************************************)
(* he-ddns-updater.py: resolve the public IPv4 address, compare it with    *)
(* the one-line cache file, POST an update to the provider when it differs *)
(* and save the new address to the cache when the provider accepts it.     *)
(*                                                                         *)
(* Text (response bodies, the cache file's content, addresses) is a        *)
(* sequence of one-character strings, so that the regular expression, the  *)
(* strip/split/lower of the response parser and the strip of the cache     *)
(* reader are computed character by character.                             *)
(* An optional value (Python's None or a str) is None or Some(text).       *)
(***************************************************************************)
EXTENDS Integers, Sequences, FiniteSets, TLC

VARIABLES
    pc,            \* position of main(): idle, lookup, read, post, save_*, done
    run,           \* number of invocations of main() started so far
    site,          \* index in IP_LOOKUP_SITES of the next endpoint to contact
    contacted,     \* indices of the endpoints contacted in this run, in order
    responses,     \* what each contacted endpoint answered, in order
    current_ip,    \* main's current_ip
    cached_ip,     \* main's cached_ip
    cacheReads,    \* number of get_cached_ip calls in this run
    cacheFile,     \* CACHE_FILE on disk: None (missing) or Some(content)
    cacheAtStart,  \* CACHE_FILE as it was when this run started
    posts,         \* form data of every POST to HE_UPDATE_URL in this run
    updResp,       \* the provider's answer to the POST of this run
    updResult,     \* update_dns: "none" (not called), "true", "false", "raised"
    saveCalls,     \* arguments of every save_cached_ip call in this run
    writeDone,     \* CACHE_FILE.write_text(ip) returned in this run
    exitCode,      \* process exit status of the run, -1 while it runs
    uncaught,      \* an exception propagated past main()
    lastAccepted,  \* the address of the last update_dns call that returned True
    reText,        \* input text of the extraction pattern (pattern specification)
    reSpans,       \* spans the pattern matched in reText
    rePhase        \* "in" before, "out" after the pattern was applied

mainVars == <<pc, run, site, contacted, responses, current_ip, cached_ip, cacheReads,
              cacheFile, cacheAtStart, posts, updResp, updResult, saveCalls,
              writeDone, exitCode, uncaught, lastAccepted>>
reVars == <<reText, reSpans, rePhase>>
vars == <<mainVars, reVars>>

\* Bound: invocations of main() by the external scheduler.
MaxRuns == 3
\* Bound: the largest digit group, written in decimal, among the inputs of
\* the extraction pattern.
MaxGroup == 300

None == <<>>
Some(x) == <<x>>

---------------------------------------------------------------------------
(* Characters *)

DigitSeq == <<"0", "1", "2", "3", "4", "5", "6", "7", "8", "9">>
Digits == {DigitSeq[i] : i \in DOMAIN DigitSeq}
UpperLetters == <<"A", "B", "C", "D", "E", "F", "G", "H", "I", "J", "K", "L", "M",
                  "N", "O", "P", "Q", "R", "S", "T", "U", "V", "W", "X", "Y", "Z">>
LowerLetters == <<"a", "b", "c", "d", "e", "f", "g", "h", "i", "j", "k", "l", "m",
                  "n", "o", "p", "q", "r", "s", "t", "u", "v", "w", "x", "y", "z">>
Letters == {UpperLetters[i] : i \in DOMAIN UpperLetters}
             \cup {LowerLetters[i] : i \in DOMAIN LowerLetters}
\* what str.strip() and str.split() take for whitespace
Whitespace == {" ", "\n", "\t", "\r"}
\* \w of a str pattern
WordChars == Digits \cup Letters \cup {"_"}

SubText(s, from, to) == [k \in 1..(to - from) |-> s[from + k - 1]]

---------------------------------------------------------------------------
(* get_current_ip's ip_pattern and re.findall, as the backtracking matcher  *)
(* runs them.  A position p is the index of the next character to consume. *)

CharIn(s, p, set) == p >= 1 /\ p <= Len(s) /\ s[p] \in set

\* \b at position p: exactly one of s[p-1], s[p] is a word character
WordBoundary(s, p) == CharIn(s, p - 1, WordChars) # CharIn(s, p, WordChars)

\* A looser octet, any one to three digits, as a mutant of OctetEnds.
OctetEndsAnyDigits(s, p) ==
    (IF CharIn(s, p, Digits) /\ CharIn(s, p + 1, Digits) /\ CharIn(s, p + 2, Digits)
     THEN <<p + 3>> ELSE <<>>)
    \o (IF CharIn(s, p, Digits) /\ CharIn(s, p + 1, Digits) THEN <<p + 2>> ELSE <<>>)
    \o (IF CharIn(s, p, Digits) THEN <<p + 1>> ELSE <<>>)

\* (?:25[0-5]|2[0-4][0-9]|[01]?[0-9][0-9]?) at p: the positions after the octet,
\* in the order the matcher tries them (alternatives left to right, ? greedy).
OctetEnds(s, p) ==
    (IF CharIn(s, p, {"2"}) /\ CharIn(s, p + 1, {"5"})
          /\ CharIn(s, p + 2, {"0", "1", "2", "3", "4", "5"})
     THEN <<p + 3>> ELSE <<>>)
    \o (IF CharIn(s, p, {"2"}) /\ CharIn(s, p + 1, {"0", "1", "2", "3", "4"})
             /\ CharIn(s, p + 2, Digits)
        THEN <<p + 3>> ELSE <<>>)
    \o (IF CharIn(s, p, {"0", "1"}) /\ CharIn(s, p + 1, Digits) /\ CharIn(s, p + 2, Digits)
        THEN <<p + 3>> ELSE <<>>)
    \o (IF CharIn(s, p, {"0", "1"}) /\ CharIn(s, p + 1, Digits) THEN <<p + 2>> ELSE <<>>)
    \o (IF CharIn(s, p, Digits) /\ CharIn(s, p + 1, Digits) THEN <<p + 2>> ELSE <<>>)
    \o (IF CharIn(s, p, Digits) THEN <<p + 1>> ELSE <<>>)

RECURSIVE MatchOctets(_, _, _), TryEnds(_, _, _)
\* The first of the candidate octet ends from which the rest of the pattern
\* matches: k octets are still to match, the last followed by \b, the others
\* by a dot.  0 when none does.
TryEnds(s, ends, k) ==
    IF ends = <<>> THEN 0
    ELSE LET e == Head(ends)
             r == IF k = 1 THEN (IF WordBoundary(s, e) THEN e ELSE 0)
                  ELSE IF CharIn(s, e, {"."}) THEN MatchOctets(s, e + 1, k - 1)
                  ELSE 0
         IN  IF r # 0 THEN r ELSE TryEnds(s, Tail(ends), k)

MatchOctets(s, p, k) == TryEnds(s, OctetEnds(s, p), k)

\* The whole ip_pattern tried at position i: the position after the match, or 0.
MatchAt(s, i) == IF WordBoundary(s, i) THEN MatchOctets(s, i, 4) ELSE 0

RECURSIVE ScanFrom(_, _)
\* re.findall's scan: leftmost matches, left to right, not overlapping.
ScanFrom(s, i) ==
    IF i > Len(s) THEN <<>>
    ELSE LET e == MatchAt(s, i)
         IN  IF e # 0 THEN << <<i, e>> >> \o ScanFrom(s, e) ELSE ScanFrom(s, i + 1)

\* <<start, end>> of every match: s[start .. end-1] is the matched text
FindSpans(s) == ScanFrom(s, 1)

\* re.findall(ip_pattern, s): the matched texts (the pattern has no capturing group)
FindAll(s) == LET sp == FindSpans(s)
              IN  [k \in DOMAIN sp |-> SubText(s, sp[k][1], sp[k][2])]

---------------------------------------------------------------------------
(* str.strip, str.split(maxsplit=1), str.lower *)

RECURSIVE LStrip(_)
LStrip(s) == IF s # <<>> /\ Head(s) \in Whitespace THEN LStrip(Tail(s)) ELSE s

RECURSIVE RStrip(_)
RStrip(s) == IF s # <<>> /\ s[Len(s)] \in Whitespace
             THEN RStrip(SubText(s, 1, Len(s)))
             ELSE s

Strip(s) == RStrip(LStrip(s))

RECURSIVE TokenLen(_)
\* length of the run of non-whitespace characters s starts with
TokenLen(s) == IF s = <<>> \/ Head(s) \in Whitespace THEN 0 ELSE 1 + TokenLen(Tail(s))

\* s.split(maxsplit=1): no part for a blank s, else the first
\* whitespace-delimited token and, when something follows it, the remainder
Split1(s) ==
    LET t == LStrip(s)
        n == TokenLen(t)
        rest == LStrip(SubText(t, n + 1, Len(t) + 1))
    IN  IF t = <<>> THEN <<>>
        ELSE IF rest = <<>> THEN <<SubText(t, 1, n + 1)>>
        ELSE <<SubText(t, 1, n + 1), rest>>

\* A lower() that leaves the letters as they are, as a mutant of LowerChar.
LowerCharKeepCase(c) == c

LowerChar(c) == IF \E i \in DOMAIN UpperLetters : UpperLetters[i] = c
                THEN LowerLetters[CHOOSE i \in DOMAIN UpperLetters : UpperLetters[i] = c]
                ELSE c

Lower(s) == [k \in DOMAIN s |-> LowerChar(s[k])]

\* parse_he_response raises IndexError: [0] of the empty list that split()
\* gives for a text that is not empty and all whitespace
ParseRaises(response_text) ==
    response_text # <<>> /\ Split1(Strip(response_text)) = <<>>

\* parse_he_response's result_token, where it does not raise
ParseHeResponse(response_text) ==
    IF response_text # <<>> THEN Lower(Split1(Strip(response_text))[1]) ELSE <<>>

---------------------------------------------------------------------------
(* Configuration and the environment's answers *)

HOSTNAME == "HE_DDNS_HOSTNAME"
KEY == "HE_DDNS_KEY"
IP_LOOKUP_SITES == <<"https://4.ifcfg.me/ip", "https://api4.ipify.org",
                     "https://ipv4.icanhazip.com">>

IpA == <<"2", "0", "3", ".", "0", ".", "1", "1", "3", ".", "9">>
IpB == <<"1", "9", "8", ".", "5", "1", ".", "1", "0", "0", ".", "7">>

\* Bodies a lookup endpoint may answer with: one address, two addresses, an
\* address-shaped text with an octet over 255, nothing.
BodyA == <<"2", "0", "3", ".", "0", ".", "1", "1", "3", ".", "9", "\n">>
BodyB == <<"1", "9", "8", ".", "5", "1", ".", "1", "0", "0", ".", "7">>
BodyBThenA == <<"1", "9", "8", ".", "5", "1", ".", "1", "0", "0", ".", "7", " ", "2", "0", "3", ".", "0", ".", "1", "1", "3", ".", "9">>
BodyOctetOver == <<"2", "0", "3", ".", "0", ".", "1", "1", "3", ".", "2", "5", "6">>
LookupBodies == {BodyA, BodyB, BodyBThenA, BodyOctetOver, <<>>}

\* What requests.get gives for a lookup endpoint: an exception of the
\* transport, or a response with a status and a body.
LookupResponses ==
    {[kind |-> "error", status |-> 0, text |-> <<>>],
     [kind |-> "http", status |-> 503, text |-> IpA],
     [kind |-> "http", status |-> 300, text |-> IpB]}
    \cup {[kind |-> "http", status |-> 200, text |-> b] : b \in LookupBodies}

TokenGood == <<"g", "o", "o", "d">>
TokenNochg == <<"n", "o", "c", "h", "g">>

\* Bodies whose first token is good or nochg, in several letter cases
BodyGood == <<"g", "o", "o", "d", " ", "2", "0", "3", ".", "0", ".", "1", "1", "3", ".", "9">>
BodyNochgUpper == <<"N", "O", "C", "H", "G">>
BodyNochgMixed == <<"N", "o", "c", "h", "g", "\n">>
AcceptBodies == {BodyGood, BodyNochgUpper, BodyNochgMixed}
\* Bodies whose first token is another one
RejectBodies == {
    <<"b", "a", "d", "a", "u", "t", "h">>,
    <<"g", "o", "o", "d", "b", "y", "e">>,
    <<"9", "1", "1", " ", "x">> }
\* Bodies with no token: empty, all whitespace
BlankBodies == { <<>>, <<"\n">> }

ProviderStatuses == {200, 202, 300, 500}

\* What session.post gives: an exception of the transport, or a response.
ProviderResponses ==
    {[kind |-> "error", status |-> 0, text |-> <<>>]}
    \cup {[kind |-> "http", status |-> st, text |-> b] :
            st \in ProviderStatuses, b \in AcceptBodies \cup RejectBodies \cup BlankBodies}

NoResponse == [kind |-> "none", status |-> 0, text |-> <<>>]

\* Response.raise_for_status() raises HTTPError, a RequestException
RaisesForStatus(status) == status >= 400 /\ status < 600

---------------------------------------------------------------------------
(* main() *)

\* get_current_ip skips the endpoint: the except branch
LookupFailed(resp) == resp.kind = "error" \/ RaisesForStatus(resp.status)

\* Taking the last match, as a mutant of FirstIp.
LastIp(ips) == ips[Len(ips)]

\* return ips[0]
FirstIp(ips) == ips[1]

\* Going on to the cache whatever get_current_ip returned, as a mutant of
\* AfterResolve.
AfterResolveAlwaysRead(ip) == "read"

\* if not current_ip: sys.exit(1)
AfterResolve(ip) == IF ip = None \/ ip = Some(<<>>) THEN "done" ELSE "read"

\* Comparing nothing, as a mutant of IpUnchanged.
IpUnchangedNever(current, cached) == FALSE

\* if current_ip == cached_ip
IpUnchanged(current, cached) == current = cached

\* Posting an empty myip, as a mutant of PostData.
PostDataNoIp(ip) == [password |-> KEY, hostname |-> HOSTNAME, myip |-> <<>>]

\* the form data of session.post
PostData(ip) == [password |-> KEY, hostname |-> HOSTNAME, myip |-> ip]

\* update_dns's success test
UpdateSucceeded(status, result) == status = 200 /\ result \in {TokenGood, TokenNochg}

\* the except branch of update_dns
UpdateTransportFailed(resp) == resp.kind = "error" \/ RaisesForStatus(resp.status)

---------------------------------------------------------------------------
(* The state after construction and the steps of main() *)

InitMain ==
    /\ pc = "idle"
    /\ run = 0
    /\ site = 1
    /\ contacted = <<>>
    /\ responses = <<>>
    /\ current_ip = None
    /\ cached_ip = None
    /\ cacheReads = 0
    /\ cacheFile = None
    /\ cacheAtStart = None
    /\ posts = <<>>
    /\ updResp = NoResponse
    /\ updResult = "none"
    /\ saveCalls = <<>>
    /\ writeDone = FALSE
    /\ exitCode = -1
    /\ uncaught = FALSE
    /\ lastAccepted = None

Init ==
    /\ InitMain
    /\ reText = <<>>
    /\ reSpans = <<>>
    /\ rePhase = "off"

\* The scheduler invokes the program: main() starts with get_current_ip().
StartRun ==
    /\ pc \in {"idle", "done"}
    /\ run < MaxRuns
    /\ run' = run + 1
    /\ pc' = "lookup"
    /\ site' = 1
    /\ contacted' = <<>>
    /\ responses' = <<>>
    /\ current_ip' = None
    /\ cached_ip' = None
    /\ cacheReads' = 0
    /\ cacheAtStart' = cacheFile
    /\ posts' = <<>>
    /\ updResp' = NoResponse
    /\ updResult' = "none"
    /\ saveCalls' = <<>>
    /\ writeDone' = FALSE
    /\ exitCode' = -1
    /\ uncaught' = FALSE
    /\ UNCHANGED <<cacheFile, lastAccepted, reVars>>

\* One iteration of get_current_ip's loop over IP_LOOKUP_SITES; the iteration
\* that ends the loop returns to main, which exits with 1 when it got no address.
LookupSite ==
    /\ pc = "lookup"
    /\ site <= Len(IP_LOOKUP_SITES)
    /\ \E resp \in LookupResponses :
         LET ips == IF LookupFailed(resp) THEN <<>> ELSE FindAll(resp.text)
             ret == IF ips # <<>> THEN Some(FirstIp(ips)) ELSE None
             last == ips # <<>> \/ site = Len(IP_LOOKUP_SITES)
         IN  /\ contacted' = Append(contacted, site)
             /\ responses' = Append(responses, resp)
             /\ site' = IF last THEN site ELSE site + 1
             /\ current_ip' = ret
             /\ pc' = IF last THEN AfterResolve(ret) ELSE "lookup"
             /\ exitCode' = IF last /\ AfterResolve(ret) = "done" THEN 1 ELSE -1
    /\ UNCHANGED <<run, cached_ip, cacheReads, cacheFile, cacheAtStart, posts, updResp,
                   updResult, saveCalls, writeDone, uncaught, lastAccepted, reVars>>

\* get_cached_ip(), then main's comparison: an unchanged address ends the run
\* (main returns, exit status 0).  Reading an existing file may raise.
ReadCache ==
    /\ pc = "read"
    /\ \E readOk \in BOOLEAN :
         LET got == IF cacheFile # None /\ readOk THEN Some(Strip(cacheFile[1])) ELSE None
         IN  /\ cacheFile = None => readOk
             /\ cached_ip' = got
             /\ cacheReads' = cacheReads + 1
             /\ pc' = IF IpUnchanged(current_ip, got) THEN "done" ELSE "post"
             /\ exitCode' = IF IpUnchanged(current_ip, got) THEN 0 ELSE -1
    /\ UNCHANGED <<run, site, contacted, responses, current_ip, cacheFile, cacheAtStart,
                   posts, updResp, updResult, saveCalls, writeDone, uncaught,
                   lastAccepted, reVars>>

\* update_dns(current_ip, session), then main's branch on what it returned.
UpdateDns ==
    /\ pc = "post"
    /\ \E resp \in ProviderResponses :
         /\ posts' = Append(posts, PostData(current_ip[1]))
         /\ updResp' = resp
         /\ IF UpdateTransportFailed(resp)
            THEN /\ updResult' = "false"
                 /\ pc' = "done" /\ exitCode' = 1
                 /\ UNCHANGED <<uncaught, lastAccepted>>
            ELSE IF ParseRaises(resp.text)
            THEN /\ updResult' = "raised"
                 /\ uncaught' = TRUE
                 /\ pc' = "done" /\ exitCode' = 1
                 /\ UNCHANGED lastAccepted
            ELSE IF UpdateSucceeded(resp.status, ParseHeResponse(resp.text))
            THEN /\ updResult' = "true"
                 /\ lastAccepted' = current_ip
                 /\ pc' = "save_mkdir" /\ exitCode' = -1
                 /\ UNCHANGED uncaught
            ELSE /\ updResult' = "false"
                 /\ pc' = "done" /\ exitCode' = 1
                 /\ UNCHANGED <<uncaught, lastAccepted>>
    /\ UNCHANGED <<run, site, contacted, responses, current_ip, cached_ip, cacheReads,
                   cacheFile, cacheAtStart, saveCalls, writeDone, reVars>>

\* save_cached_ip(current_ip) is entered: CACHE_FILE.parent.mkdir().  An
\* exception of any step of save_cached_ip is caught and logged, and main
\* goes on to sys.exit(0).
SaveMkdir ==
    /\ pc = "save_mkdir"
    /\ saveCalls' = Append(saveCalls, current_ip[1])
    /\ \E ok \in BOOLEAN :
         /\ pc' = IF ok THEN "save_open" ELSE "done"
         /\ exitCode' = IF ok THEN -1 ELSE 0
    /\ UNCHANGED <<run, site, contacted, responses, current_ip, cached_ip, cacheReads,
                   cacheFile, cacheAtStart, posts, updResp, updResult, writeDone,
                   uncaught, lastAccepted, reVars>>

\* write_text opens CACHE_FILE for writing, which creates or truncates it.
SaveOpen ==
    /\ pc = "save_open"
    /\ \E ok \in BOOLEAN :
         /\ cacheFile' = IF ok THEN Some(<<>>) ELSE cacheFile
         /\ pc' = IF ok THEN "save_write" ELSE "done"
         /\ exitCode' = IF ok THEN -1 ELSE 0
    /\ UNCHANGED <<run, site, contacted, responses, current_ip, cached_ip, cacheReads,
                   cacheAtStart, posts, updResp, updResult, saveCalls, writeDone,
                   uncaught, lastAccepted, reVars>>

\* write_text writes the address and closes the file.
SaveWrite ==
    /\ pc = "save_write"
    /\ \E ok \in BOOLEAN :
         /\ cacheFile' = IF ok THEN Some(saveCalls[Len(saveCalls)]) ELSE cacheFile
         /\ writeDone' = ok
         /\ pc' = IF ok THEN "save_chmod" ELSE "done"
         /\ exitCode' = IF ok THEN -1 ELSE 0
    /\ UNCHANGED <<run, site, contacted, responses, current_ip, cached_ip, cacheReads,
                   cacheAtStart, posts, updResp, updResult, saveCalls,
                   uncaught, lastAccepted, reVars>>

\* CACHE_FILE.chmod(0o600), then sys.exit(0) whether it raised or not.
SaveChmod ==
    /\ pc = "save_chmod"
    /\ pc' = "done"
    /\ exitCode' = 0
    /\ UNCHANGED <<run, site, contacted, responses, current_ip, cached_ip, cacheReads,
                   cacheFile, cacheAtStart, posts, updResp, updResult, saveCalls,
                   writeDone, uncaught, lastAccepted, reVars>>

Next ==
    \/ StartRun
    \/ LookupSite
    \/ ReadCache
    \/ UpdateDns
    \/ SaveMkdir
    \/ SaveOpen
    \/ SaveWrite
    \/ SaveChmod

Spec == Init /\ [][Next]_vars

---------------------------------------------------------------------------
(* The extraction pattern alone: its inputs are four digit groups joined by *)
(* dots, between a prefix and a suffix.                                    *)

OctetSamples == {<<"0">>, <<"0", "0">>, <<"1", "9", "9">>, <<"2", "4", "9">>,
                 <<"2", "5", "5">>, <<"2", "5", "6">>, <<"3", "0", "0">>,
                 <<"1", "0", "0", "0">>}
Prefixes == {<<>>, <<"x">>, <<"7">>, <<"7", ".">>}
Suffixes == {<<>>, <<"\n">>, <<"x">>, <<"7">>, <<".", "7">>}

RECURSIVE Numeral(_)
\* n written in decimal
Numeral(n) == IF n < 10 THEN <<DigitSeq[n + 1]>>
              ELSE Numeral(n \div 10) \o <<DigitSeq[(n % 10) + 1]>>

Numerals == {Numeral(n) : n \in 0..MaxGroup}
Ends == {<<"0">>, <<"2", "5", "5">>}

Quad(g1, g2, g3, g4) == g1 \o <<".">> \o g2 \o <<".">> \o g3 \o <<".">> \o g4

\* Every combination of the sample groups between every prefix and suffix,
\* and every numeral up to MaxGroup in each of the four places.
PatternInputs ==
    {pre \o Quad(g1, g2, g3, g4) \o post :
       pre \in Prefixes, g1 \in OctetSamples, g2 \in OctetSamples,
       g3 \in OctetSamples, g4 \in OctetSamples, post \in Suffixes}
    \cup {Quad(n, a, b, c) : n \in Numerals, a \in Ends, b \in Ends, c \in Ends}
    \cup {Quad(a, n, b, c) : n \in Numerals, a \in Ends, b \in Ends, c \in Ends}
    \cup {Quad(a, b, n, c) : n \in Numerals, a \in Ends, b \in Ends, c \in Ends}
    \cup {Quad(a, b, c, n) : n \in Numerals, a \in Ends, b \in Ends, c \in Ends}

InitPattern ==
    /\ InitMain
    /\ reText \in PatternInputs
    /\ reSpans = <<>>
    /\ rePhase = "in"

\* ips = re.findall(ip_pattern, response.text)
ApplyPattern ==
    /\ rePhase = "in"
    /\ reSpans' = FindSpans(reText)
    /\ rePhase' = "out"
    /\ UNCHANGED <<reText, mainVars>>

NextPattern == ApplyPattern

SpecPattern == InitPattern /\ [][NextPattern]_vars

---------------------------------------------------------------------------
(* Properties of main() (specification Spec) *)

\* A run is over when pc = "done"; its history variables are kept until the
\* next run starts.

\* C1: between runs, a cache file that is present holds the address of the
\* last update_dns call that returned True.
CacheIsLastAccepted ==
    (pc \in {"idle", "done"} /\ cacheFile # None) => cacheFile = lastAccepted

\* A provider answer that is a failed update: a transport error, a status
\* other than the success status 200 that update_dns tests for, or a body
\* whose first token is neither good nor nochg.
UpdateFailureCase(resp) ==
    resp.kind = "error" \/ resp.status # 200 \/ resp.text \in RejectBodies

\* C2: a run whose update fails: update_dns returned False, save_cached_ip
\* was not called, the cache file is as it was when the run started, and the
\* exit status is 1.
FailedUpdateLeavesCache ==
    (pc = "done" /\ posts # <<>> /\ UpdateFailureCase(updResp))
      => /\ updResult = "false"
         /\ saveCalls = <<>>
         /\ cacheFile = cacheAtStart
         /\ exitCode = 1

\* The provider answered status 200 with a body whose first token is good or
\* nochg in some letter case.
AcceptedCase ==
    /\ pc = "done"
    /\ posts # <<>>
    /\ updResp.kind = "http"
    /\ updResp.status = 200
    /\ updResp.text \in AcceptBodies

\* C3 as stated: after an accepted update the run ends with the cache file
\* holding the newly resolved address and exit status 0.
AcceptedUpdateOverwritesCache ==
    AcceptedCase => /\ updResult = "true"
                    /\ cacheFile = current_ip
                    /\ exitCode = 0

\* C3 amended: after an accepted update save_cached_ip was called once, with
\* the newly resolved address, the exit status is 0, and the cache file holds
\* the new address if write_text returned.
AcceptedUpdateSavesCache ==
    AcceptedCase => /\ updResult = "true"
                    /\ saveCalls = <<current_ip[1]>>
                    /\ exitCode = 0
                    /\ writeDone => cacheFile = current_ip

AcceptedUpdateWitness ==
    /\ AcceptedCase
    /\ updResp.text = BodyNochgUpper
    /\ cacheAtStart = None
    /\ current_ip = Some(IpA)
    /\ cacheFile = Some(IpA)
    /\ exitCode = 0

\* The run is over, no update was attempted and the cache was not written.
NoOpRun ==
    /\ posts = <<>>
    /\ updResult = "none"
    /\ saveCalls = <<>>
    /\ cacheFile = cacheAtStart
    /\ exitCode = 0

\* C4 as stated: the cache file held X when the run started and
\* get_current_ip returned X: the run is a no-op with exit status 0.
UnchangedIpNoUpdate ==
    (pc = "done" /\ cacheAtStart \in {Some(IpA), Some(IpB)} /\ current_ip = cacheAtStart)
      => NoOpRun

\* C4 amended: the cache file held X, get_cached_ip read it, and
\* get_current_ip returned X: the run is a no-op with exit status 0.
UnchangedIpReadNoUpdate ==
    (pc = "done" /\ cacheAtStart \in {Some(IpA), Some(IpB)} /\ current_ip = cacheAtStart
       /\ cached_ip = cacheAtStart)
      => NoOpRun

UnchangedIpWitness ==
    /\ pc = "done"
    /\ cacheAtStart = Some(IpA)
    /\ current_ip = Some(IpA)
    /\ cached_ip = Some(IpA)
    /\ cacheReads = 1
    /\ exitCode = 0

\* C5: no run posts twice, and a run that started with X in the cache file
\* and resolved Y # X has posted exactly once when it ends, with myip = Y and
\* the configured hostname and key.
ChangedIpOneUpdate ==
    /\ Len(posts) <= 1
    /\ (pc = "done" /\ cacheAtStart \in {Some(IpA), Some(IpB)} /\ current_ip # None
          /\ current_ip # cacheAtStart)
         => posts = <<[password |-> KEY, hostname |-> HOSTNAME, myip |-> current_ip[1]]>>

ChangedIpWitness ==
    /\ pc = "done"
    /\ cacheAtStart = Some(IpA)
    /\ current_ip = Some(IpB)
    /\ updResult = "false"
    /\ Len(posts) = 1
    /\ exitCode = 1

\* A lookup answer that get_current_ip is to skip: a request error, a status
\* for which raise_for_status raises, or a body without an IPv4 address.
EndpointSkipped(resp) ==
    resp.kind = "error" \/ resp.status >= 400 \/ resp.text \in {BodyOctetOver, <<>>}

\* The first IPv4 address in the body of a lookup answer that is not skipped.
EndpointYields(resp, ip) ==
    /\ ~EndpointSkipped(resp)
    /\ <<resp.text, ip>> \in {<<BodyA, IpA>>, <<BodyB, IpB>>, <<BodyBThenA, IpB>>}

\* C6: a run in which every endpoint of IP_LOOKUP_SITES failed ends with no
\* address, a non-zero exit status, no read or write of the cache and no POST.
AllLookupsFailedExit ==
    (pc = "done" /\ Len(responses) = Len(IP_LOOKUP_SITES)
       /\ \A j \in DOMAIN responses : EndpointSkipped(responses[j]))
      => /\ current_ip = None
         /\ exitCode = 1
         /\ cacheReads = 0
         /\ saveCalls = <<>>
         /\ cacheFile = cacheAtStart
         /\ posts = <<>>
         /\ updResult = "none"

AllLookupsFailedWitness ==
    /\ pc = "done"
    /\ Len(responses) = 3
    /\ responses[1].kind = "error"
    /\ responses[2].status = 503
    /\ responses[3].text = BodyOctetOver
    /\ cacheFile = Some(IpA)
    /\ exitCode = 1

\* C7: a run ends with exit status 0 or 1 and no exception has propagated
\* past main().
NoUncaughtException ==
    pc = "done" => (~uncaught /\ exitCode \in {0, 1})

\* C8: from the call of save_cached_ip(ip) on, the cache file is what it was
\* before the call or holds ip.
CacheWriteAtomic ==
    saveCalls # <<>> => cacheFile \in {cacheAtStart, Some(saveCalls[1])}

\* C9: the endpoints are contacted in list order; every endpoint contacted
\* before the one that gave the address was skipped for a failure; the address
\* is the first one in the body of the last endpoint contacted; without an
\* address every endpoint contacted was skipped.
LookupInOrderFirstMatch ==
    /\ contacted = [i \in 1..Len(contacted) |-> i]
    /\ Len(responses) = Len(contacted)
    /\ \A j \in DOMAIN responses :
         (j < Len(responses) \/ current_ip = None) => EndpointSkipped(responses[j])
    /\ current_ip # None =>
         /\ responses # <<>>
         /\ EndpointYields(responses[Len(responses)], current_ip[1])

LookupWitness ==
    /\ pc = "done"
    /\ Len(responses) = 2
    /\ responses[1].text = BodyOctetOver /\ responses[1].status = 200
    /\ responses[2].text = BodyBThenA
    /\ current_ip = Some(IpB)

---------------------------------------------------------------------------
(* Properties of the extraction pattern (specification SpecPattern) *)

DigitValue(c) == (CHOOSE n \in DOMAIN DigitSeq : DigitSeq[n] = c) - 1

RECURSIVE DecimalValue(_)
DecimalValue(g) ==
    IF g = <<>> THEN 0
    ELSE DecimalValue(SubText(g, 1, Len(g))) * 10 + DigitValue(g[Len(g)])

\* <<a, b>> for every maximal run of digits s[a .. b-1] of s
DigitRuns(s) ==
    {r \in (1..Len(s)) \X (2..(Len(s) + 1)) :
       /\ r[1] < r[2]
       /\ \A k \in r[1]..(r[2] - 1) : s[k] \in Digits
       /\ ~CharIn(s, r[1] - 1, Digits)
       /\ ~CharIn(s, r[2], Digits)}

RunValue(s, r) == DecimalValue(SubText(s, r[1], r[2]))

\* s is four groups of one to three digits, each at most 255, joined by dots
ValidDottedQuad(s) ==
    /\ s # <<>>
    /\ \A k \in DOMAIN s : s[k] \in Digits \cup {"."}
    /\ Cardinality({k \in DOMAIN s : s[k] = "."}) = 3
    /\ Cardinality(DigitRuns(s)) = 4
    /\ \A r \in DigitRuns(s) : r[2] - r[1] <= 3 /\ RunValue(s, r) <= 255

\* C10: the pattern matches a valid dotted quad as a whole, and every match
\* is made of whole digit groups of the text, each of value at most 255.
PatternOctetRange ==
    rePhase = "out" =>
      /\ ValidDottedQuad(reText) => reSpans = << <<1, Len(reText) + 1>> >>
      /\ \A k \in DOMAIN reSpans : \A r \in DigitRuns(reText) :
           (r[1] < reSpans[k][2] /\ reSpans[k][1] < r[2])
             => /\ reSpans[k][1] <= r[1]
                /\ r[2] <= reSpans[k][2]
                /\ RunValue(reText, r) <= 255

PatternWitness ==
    /\ rePhase = "out"
    /\ reSpans # <<>>
    /\ \E r \in DigitRuns(reText) : RunValue(reText, r) > 255

====
